---- MODULE Spec2Model ----
(***************************************************************************)
(* Multi-Messenger-Event-Correlator (app.py): standardize_data,            *)
(* correlate_events and the /api/events handler get_event_data with its    *)
(* two feeds.                                                              *)
(*                                                                         *)
(* Units.  Instants are whole seconds after 2025-01-01T00:00:00 UTC.       *)
(* Angles are whole degrees.  separation() returns the whole-degree floor  *)
(* of the great-circle separation; for an integer threshold n,             *)
(* floor(x) < n is the same as x < n, so the strict comparison of line 134 *)
(* is kept exactly.                                                        *)
(***************************************************************************)
EXTENDS Integers, Sequences, FiniteSets, TLC

VARIABLES
    pc,                       \* control location of the running call
    entry,                    \* "none", "direct" (standardize_data + correlate_events) or "get_event_data"
    TIME_WINDOW_SECONDS,      \* module global, line 15
    SEPARATION_THRESHOLD_DEG, \* module global, line 16
    real_ztf_events,          \* get_event_data local, line 156
    real_gw_events,           \* get_event_data local, line 157
    raw_data,                 \* the batch given to standardize_data (line 169 / argument)
    standardized,             \* standardize_data's list (line 111)
    k,                        \* position of standardize_data's loop (line 112)
    i,                        \* outer loop index of correlate_events (line 126), 1-based
    j,                        \* inner loop index of correlate_events (line 127), 1-based
    correlated_pairs,         \* correlate_events' list (line 125), the value it returns
    examined,                 \* history: the index pairs the inner loop body has visited
    error,                    \* exception that ended the call, "none" otherwise
    stage,                    \* function in which the exception was raised
    payload,                  \* the JSON body returned by get_event_data
    watched                   \* history: a remembered earlier run (batch and result)

vars == << pc, entry, TIME_WINDOW_SECONDS, SEPARATION_THRESHOLD_DEG,
           real_ztf_events, real_gw_events, raw_data, standardized, k, i, j,
           correlated_pairs, examined, error, stage, payload, watched >>

----------------------------------------------------------------------------
(* Bounds *)

MaxBatch == 3       \* longest batch handed directly to standardize_data
MaxRunBatch == 2    \* longest batch in the repeated-run specification
MaxFeed == 2        \* most records one feed delivers
MockCount == 2      \* events made by generate_fallback_mock_data (20 in the source)

----------------------------------------------------------------------------
(* Values of fields.  A numeric field is <<"num", v>>; a field holding a   *)
(* non-number is <<"str", v>>; a key that is not in the dict is Absent.    *)

Num(v) == << "num", v >>
Str(v) == << "str", v >>
NonNumeric == Str("abc")
Absent == << "absent", 0 >>
DateTime(s) == << "datetime", s >>

IsAbsent(f) == f[1] = "absent"
IsNum(f) == f[1] = "num"
IsDateTime(f) == f[1] = "datetime"

Abs(x) == IF x < 0 THEN -x ELSE x

----------------------------------------------------------------------------
(* Great-circle separation, as SkyCoord.separation computes it, in fixed   *)
(* point: cosines scaled by Scale, for whole degrees.                      *)

Scale == 10000

CosTab ==
  << 10000, 9998, 9994, 9986, 9976, 9962, 9945, 9925, 9903, 9877,
     9848, 9816, 9781, 9744, 9703, 9659, 9613, 9563, 9511, 9455,
     9397, 9336, 9272, 9205, 9135, 9063, 8988, 8910, 8829, 8746,
     8660, 8572, 8480, 8387, 8290, 8192, 8090, 7986, 7880, 7771,
     7660, 7547, 7431, 7314, 7193, 7071, 6947, 6820, 6691, 6561,
     6428, 6293, 6157, 6018, 5878, 5736, 5592, 5446, 5299, 5150,
     5000, 4848, 4695, 4540, 4384, 4226, 4067, 3907, 3746, 3584,
     3420, 3256, 3090, 2924, 2756, 2588, 2419, 2250, 2079, 1908,
     1736, 1564, 1392, 1219, 1045, 872, 698, 523, 349, 175,
     0 >>

\* cos of a whole number of degrees, any sign and size
Cos(a) ==
    LET r == a % 360
        f == IF r > 180 THEN 360 - r ELSE r      \* cos(360 - r) = cos r
    IN  IF f <= 90 THEN CosTab[f + 1] ELSE -CosTab[(180 - f) + 1]

Sin(a) == Cos(90 - a)

\* cos of the separation, scaled by Scale * Scale (spherical law of cosines)
CosSeparation(c1, c2) ==
    LET v == Sin(c1.dec) * Sin(c2.dec)
             + ((Cos(c1.dec) * Cos(c2.dec)) \div Scale) * Cos(c1.ra - c2.ra)
    IN  IF v > Scale * Scale THEN Scale * Scale ELSE v

\* a flat difference of the coordinates, with no wrap of right ascension
separation_flat(c1, c2) ==
    LET dra == Abs(c1.ra - c2.ra)
        ddec == Abs(c1.dec - c2.dec)
    IN  IF dra > ddec THEN dra ELSE ddec

\* the largest d in lo..hi with cos(d) >= v / Scale^2, cos(lo) being so;
\* cos decreases on 0..180
RECURSIVE ArcCosFloor(_, _, _)
ArcCosFloor(v, lo, hi) ==
    IF lo = hi THEN lo
    ELSE LET mid == (lo + hi + 1) \div 2
         IN  IF Cos(mid) * Scale >= v
             THEN ArcCosFloor(v, mid, hi)
             ELSE ArcCosFloor(v, lo, mid - 1)

\* whole degrees of the great-circle separation
separation(c1, c2) == ArcCosFloor(CosSeparation(c1, c2), 0, 180)

----------------------------------------------------------------------------
(* Module configuration, lines 15-16 *)

DefaultTimeWindow == Num(600)
DefaultSeparationThreshold == Num(5)

----------------------------------------------------------------------------
(* Raw events: dicts with the keys id, source, time, ra, dec.              *)

Raw(id, source, time, ra, dec) ==
    [id |-> id, source |-> source, time |-> time, ra |-> ra, dec |-> dec]

\* well-formed records
Z1 == Raw(Str("Z1"), Str("ZTF"),   DateTime(100), Num(10),  Num(0))
Z2 == Raw(Str("Z2"), Str("ZTF"),   DateTime(0),   Num(11),  Num(0))
Z3 == Raw(Str("Z3"), Str("ZTF"),   DateTime(150), Num(359), Num(0))
G1 == Raw(Str("G1"), Str("GWOSC"), DateTime(200), Num(12),  Num(0))
G2 == Raw(Str("G2"), Str("GWOSC"), DateTime(700), Num(10),  Num(0))
G3 == Raw(Str("G3"), Str("GWOSC"), DateTime(100), Num(15),  Num(0))
G4 == Raw(Str("G4"), Str("GWOSC"), DateTime(160), Num(1),   Num(0))
\* malformed records
B1 == Raw(Str("B1"), Str("ZTF"),   DateTime(100), Num(10),  Num(95))
B2 == Raw(Str("B2"), Str("GWOSC"), DateTime(100), Num(370), Num(0))
B3 == Raw(Str("B3"), Str("GWOSC"), DateTime(100), Absent,   Num(0))
B4 == Raw(Str("B4"), Str("GWOSC"), DateTime(100), NonNumeric, Num(0))

GoodRaw == { Z1, Z2, Z3, G1, G2, G3, G4 }
BadRaw == { B1, B2, B3, B4 }
RawEvents == GoodRaw \cup BadRaw
RunEvents == { Z1, Z2, G1, G3, B1 }

\* a record the Standardizer's contract (spec 4.1) calls malformed
Malformed(e) ==
    \/ IsAbsent(e.id) \/ IsAbsent(e.source) \/ IsAbsent(e.time)
    \/ IsAbsent(e.ra) \/ IsAbsent(e.dec)
    \/ ~IsDateTime(e.time) \/ ~IsNum(e.ra) \/ ~IsNum(e.dec)
    \/ e.dec[2] < -90 \/ e.dec[2] > 90
    \/ e.ra[2] < 0 \/ e.ra[2] >= 360

Injective(s) == \A m, n \in 1..Len(s) : m # n => s[m] # s[n]

\* the sequences of distinct elements of S, of length at most n
BatchesOf(S, n) ==
    { s \in UNION { [1..m -> S] : m \in 0..n } : Injective(s) }

----------------------------------------------------------------------------
(* standardize_data, lines 107-119 *)

\* the exception the dict literal of lines 113-118 raises for a record,
\* its keys evaluated in the order they are written
StdError(e) ==
    IF IsAbsent(e.id) THEN "KeyError"
    ELSE IF IsAbsent(e.source) THEN "KeyError"
    ELSE IF IsAbsent(e.time) THEN "KeyError"
    ELSE IF ~IsDateTime(e.time) THEN "ValueError"      \* Time(...) rejects it
    ELSE IF IsAbsent(e.ra) THEN "KeyError"
    ELSE IF ~IsNum(e.ra) THEN "TypeError"              \* 'abc' * u.degree
    ELSE IF IsAbsent(e.dec) THEN "KeyError"
    ELSE IF ~IsNum(e.dec) THEN "TypeError"
    ELSE IF e.dec[2] < -90 \/ e.dec[2] > 90 THEN "ValueError"  \* Latitude out of range
    ELSE "none"

\* the canonical event of lines 113-118; SkyCoord wraps right ascension
\* into [0, 360)
Canonical(e) ==
    [id |-> e.id[2], source |-> e.source[2], time |-> e.time[2],
     coords |-> [ra |-> e.ra[2] % 360, dec |-> e.dec[2]]]

\* standardize_data changing the record it reads (event['time'] = Time(...))
RawAfterStandardize_inplace(raw, n) ==
    [raw EXCEPT ![n].time = Num(raw[n].time[2])]

\* the caller's batch after standardize_data has read record n: untouched
RawAfterStandardize(raw, n) == raw

----------------------------------------------------------------------------
(* correlate_events, lines 121-139 *)

\* line 125 without the fresh list: the list of the previous call is reused
FreshPairs_stale == correlated_pairs

\* line 125: correlated_pairs = []
FreshPairs == << >>

\* the slice [i+2:] instead of [i+1:]
InnerStart_skip(idx) == idx + 2

\* line 127: the inner loop runs over standardized_events[i+1:]
InnerStart(idx) == idx + 1

SameSource(e1, e2) == e1.source = e2.source

\* line 131
time_difference(e1, e2) == Abs(e1.time - e2.time)

\* line 132 with <= instead of <
WithinTimeWindow_inclusive(td, tw) == td <= tw[2]

\* line 132
WithinTimeWindow(td, tw) == td < tw[2]

\* line 134
WithinSeparation(sep, thr) == sep < thr[2]

\* the tuple built with its members exchanged
ReportedPair_swapped(e1, e2) == << e2.id, e1.id >>

\* lines 136-138
ReportedPair(e1, e2) == << e1.id, e2.id >>

\* the exception a comparison with a non-numeric threshold raises
CompareError(thr) == IF IsNum(thr) THEN "none" ELSE "TypeError"

----------------------------------------------------------------------------
(* State after the module is loaded *)

NoRun == [set |-> FALSE, batch |-> << >>, pairs |-> << >>]
NoPayload == [set |-> FALSE, all_events |-> << >>, correlations |-> << >>]

Init ==
    /\ pc = "idle"
    /\ entry = "none"
    /\ TIME_WINDOW_SECONDS = DefaultTimeWindow
    /\ SEPARATION_THRESHOLD_DEG = DefaultSeparationThreshold
    /\ real_ztf_events = << >>
    /\ real_gw_events = << >>
    /\ raw_data = << >>
    /\ standardized = << >>
    /\ k = 1
    /\ i = 1
    /\ j = 1
    /\ correlated_pairs = << >>
    /\ examined = << >>
    /\ error = "none"
    /\ stage = "none"
    /\ payload = NoPayload
    /\ watched = NoRun

globals == << TIME_WINDOW_SECONDS, SEPARATION_THRESHOLD_DEG >>
feeds == << real_ztf_events, real_gw_events >>
loops == << i, j, examined >>

----------------------------------------------------------------------------
(* standardize_data(raw_events) followed by correlate_events(standardized), *)
(* called with a batch of the caller's choice                               *)

Enter(batch) ==
    /\ pc = "idle"
    /\ pc' = "standardize"
    /\ entry' = "direct"
    /\ raw_data' = batch
    /\ standardized' = << >>                                   \* line 111
    /\ k' = 1
    /\ UNCHANGED << globals, feeds, loops, correlated_pairs, error, stage,
                    payload, watched >>

\* the batches a caller hands over
DirectBatches == BatchesOf(RawEvents, MaxBatch)

Call ==
    /\ pc = "idle"
    /\ \E batch \in DirectBatches : Enter(batch)

\* one pass of the loop of lines 112-118
StandardizeStep ==
    /\ pc = "standardize"
    /\ k <= Len(raw_data)
    /\ IF StdError(raw_data[k]) # "none"
       THEN /\ pc' = "raised"
            /\ error' = StdError(raw_data[k])
            /\ stage' = "standardize_data"
            /\ UNCHANGED << standardized, k >>
       ELSE /\ standardized' = Append(standardized, Canonical(raw_data[k]))
            /\ k' = k + 1
            /\ UNCHANGED << pc, error, stage >>
    /\ raw_data' = RawAfterStandardize(raw_data, k)
    /\ UNCHANGED << entry, globals, feeds, loops, correlated_pairs, payload,
                    watched >>

\* line 119, then the entry of correlate_events, lines 125-126
StandardizeReturn ==
    /\ pc = "standardize"
    /\ k > Len(raw_data)
    /\ pc' = "correlate"
    /\ correlated_pairs' = FreshPairs                          \* line 125
    /\ i' = 1
    /\ j' = InnerStart(1)
    /\ examined' = << >>
    /\ UNCHANGED << entry, globals, feeds, raw_data, standardized, k, error,
                    stage, payload, watched >>

\* the exception raised in the body of the inner loop for events e1, e2
PairError(e1, e2) ==
    IF SameSource(e1, e2) THEN "none"
    ELSE IF CompareError(TIME_WINDOW_SECONDS) # "none"
         THEN CompareError(TIME_WINDOW_SECONDS)
    ELSE IF ~WithinTimeWindow(time_difference(e1, e2), TIME_WINDOW_SECONDS)
         THEN "none"
    ELSE CompareError(SEPARATION_THRESHOLD_DEG)

\* lines 128-134: the pair passes all three tests
Matches(e1, e2) ==
    /\ ~SameSource(e1, e2)
    /\ WithinTimeWindow(time_difference(e1, e2), TIME_WINDOW_SECONDS)
    /\ WithinSeparation(separation(e1.coords, e2.coords),
                        SEPARATION_THRESHOLD_DEG)

\* one pass of the inner loop body, lines 128-138
CorrelateStep ==
    /\ pc = "correlate"
    /\ i <= Len(standardized)
    /\ j <= Len(standardized)
    /\ examined' = Append(examined, << i, j >>)
    /\ LET e1 == standardized[i]
           e2 == standardized[j]
       IN  IF PairError(e1, e2) # "none"
           THEN /\ pc' = "raised"
                /\ error' = PairError(e1, e2)
                /\ stage' = "correlate_events"
                /\ UNCHANGED << j, correlated_pairs >>
           ELSE /\ correlated_pairs' =
                      IF Matches(e1, e2)
                      THEN Append(correlated_pairs, ReportedPair(e1, e2))
                      ELSE correlated_pairs
                /\ j' = j + 1
                /\ UNCHANGED << pc, error, stage >>
    /\ UNCHANGED << entry, globals, feeds, raw_data, standardized, k, i,
                    payload, watched >>

\* the inner loop is exhausted: next event1 of line 126
CorrelateNextOuter ==
    /\ pc = "correlate"
    /\ i <= Len(standardized)
    /\ j > Len(standardized)
    /\ i' = i + 1
    /\ j' = InnerStart(i + 1)
    /\ UNCHANGED << pc, entry, globals, feeds, raw_data, standardized, k,
                    correlated_pairs, examined, error, stage, payload,
                    watched >>

\* line 139
CorrelateReturn ==
    /\ pc = "correlate"
    /\ i > Len(standardized)
    /\ pc' = IF entry = "get_event_data" THEN "serialize" ELSE "returned"
    /\ UNCHANGED << entry, globals, feeds, raw_data, standardized, k, loops,
                    correlated_pairs, error, stage, payload, watched >>

\* the call is over; its locals are gone
Finish ==
    /\ pc \in { "returned", "raised" }
    /\ pc' = "idle"
    /\ entry' = "none"
    /\ real_ztf_events' = << >>
    /\ real_gw_events' = << >>
    /\ raw_data' = << >>
    /\ standardized' = << >>
    /\ k' = 1
    /\ i' = 1
    /\ j' = 1
    /\ correlated_pairs' = << >>
    /\ examined' = << >>
    /\ error' = "none"
    /\ stage' = "none"
    /\ payload' = NoPayload
    /\ UNCHANGED << globals, watched >>

----------------------------------------------------------------------------
(* The feeds, lines 19-104 *)

\* instants of the reference epoch 2025-01-01T00:00:00 UTC on the feeds' scales
EpochMjd == 60676
EpochGps == 1419724818
SecondsPerDay == 86400

\* Time(lastmjd, format='mjd').to_datetime(timezone=UTC), line 51
MjdToDateTime(m) == DateTime((m.day - EpochMjd) * SecondsPerDay + m.sec)

\* Time(GPS, format='gps').to_datetime(timezone=UTC), line 84
GpsToDateTime(g) == DateTime(g - EpochGps)

Alert(oid, lastmjd, meanra, meandec) ==
    [oid |-> oid, lastmjd |-> lastmjd, meanra |-> meanra, meandec |-> meandec]

Mjd(day, sec) == Num([day |-> day, sec |-> sec])

A1 == Alert(Str("A1"), Mjd(60676, 100), Num(10), Num(0))
A2 == Alert(Str("A2"), Mjd(60676, 700), Num(10), Num(89))
A3 == Alert(Str("A3"), Mjd(60676, 100), Absent,  Num(0))    \* no 'meanra'
A4 == Alert(Str("A4"), Mjd(60676, 100), Num(10), Num(95))   \* declination 95

ZtfAlerts == { A1, A2, A3, A4 }

GwEntry(name, gps) == [name |-> name, GPS |-> gps]

E1 == GwEntry(Str("E1"), Num(1419725018))
E2 == GwEntry(Str("E2"), Num(1419725518))
E3 == GwEntry(Str("E3"), Absent)                            \* no 'GPS'

GwEntries == { E1, E2, E3 }

Position(ra, dec) == [ra |-> ra, dec |-> dec]

\* values random.uniform(0, 360), random.uniform(-90, 90) may return
RandomPositions == { Position(12, 0), Position(190, 89) }

\* datetime.now(UTC) of line 23
NowUtc == 3800
\* values base_time - timedelta(minutes=random.uniform(1, 60)) may return
RandomMockTimes == { NowUtc - 60, NowUtc - 3600 }

\* what requests.get and response.json() hand to a fetch function
FeedFailures ==
    { [kind |-> "RequestException"], [kind |-> "status"] }

ZtfResponses ==
    FeedFailures \cup
    { [kind |-> "ok", alerts |-> a] : a \in BatchesOf(ZtfAlerts, MaxFeed) }

GwResponses ==
    FeedFailures \cup { [kind |-> "no_results"] } \cup
    { [kind |-> "ok", results |-> r] : r \in BatchesOf(GwEntries, MaxFeed) }

AlertLacksKey(a) ==
    IsAbsent(a.lastmjd) \/ IsAbsent(a.oid) \/ IsAbsent(a.meanra)
        \/ IsAbsent(a.meandec)

\* lines 51-58
ZtfEvent(a) ==
    Raw(a.oid, Str("ZTF"), MjdToDateTime(a.lastmjd[2]), a.meanra, a.meandec)

\* lines 84-96, pos the random position of lines 94-95
GwEvent(g, pos) ==
    Raw(g.name, Str("GWOSC"), GpsToDateTime(g.GPS[2]), Num(pos.ra),
        Num(pos.dec))

\* lines 25-31, t and pos the random values of lines 28-30
MockEvent(n, t, pos) ==
    Raw(Str("MOCK_ZTF_" \o ToString(n - 1)), Str("ZTF"), DateTime(t),
        Num(pos.ra),
        Num(pos.dec))

----------------------------------------------------------------------------
(* get_event_data, lines 152-183 *)

\* the request arrives
Request ==
    /\ pc = "idle"
    /\ pc' = "fetch_ztf"
    /\ entry' = "get_event_data"
    /\ UNCHANGED << globals, feeds, raw_data, standardized, k, loops,
                    correlated_pairs, error, stage, payload, watched >>

\* line 156: fetch_ztf_data(), lines 34-66
FetchZtf ==
    /\ pc = "fetch_ztf"
    /\ \E resp \in ZtfResponses :
         IF resp.kind # "ok"
         THEN \* lines 61-66: status code or RequestException
              /\ real_ztf_events' = << >>
              /\ pc' = "fetch_gw"
              /\ UNCHANGED << error, stage >>
         ELSE IF \E n \in 1..Len(resp.alerts) : AlertLacksKey(resp.alerts[n])
         THEN \* alert[...] raises KeyError, which line 64 does not catch
              /\ pc' = "raised"
              /\ error' = "KeyError"
              /\ stage' = "fetch_ztf_data"
              /\ UNCHANGED real_ztf_events
         ELSE /\ real_ztf_events' =
                    [n \in 1..Len(resp.alerts) |-> ZtfEvent(resp.alerts[n])]
              /\ pc' = "fetch_gw"
              /\ UNCHANGED << error, stage >>
    /\ UNCHANGED << entry, globals, real_gw_events, raw_data, standardized,
                    k, loops, correlated_pairs, payload, watched >>

\* line 157: fetch_gw_data(), lines 69-104
FetchGw ==
    /\ pc = "fetch_gw"
    /\ \E resp \in GwResponses :
         IF resp.kind \in { "RequestException", "status" }
         THEN \* lines 99-104
              /\ real_gw_events' = << >>
              /\ pc' = "assemble"
              /\ UNCHANGED << error, stage >>
         ELSE IF resp.kind = "no_results"
         THEN \* gwosc_response['results'] raises KeyError, line 82
              /\ pc' = "raised"
              /\ error' = "KeyError"
              /\ stage' = "fetch_gw_data"
              /\ UNCHANGED real_gw_events
         ELSE IF \E n \in 1..Len(resp.results) :
                    IsAbsent(resp.results[n].GPS)
         THEN \* event_data['GPS'] raises KeyError, line 84
              /\ pc' = "raised"
              /\ error' = "KeyError"
              /\ stage' = "fetch_gw_data"
              /\ UNCHANGED real_gw_events
         ELSE \E pos \in [1..Len(resp.results) -> RandomPositions] :
              /\ real_gw_events' =
                    [n \in 1..Len(resp.results) |->
                        GwEvent(resp.results[n], pos[n])]
              /\ pc' = "assemble"
              /\ UNCHANGED << error, stage >>
    /\ UNCHANGED << entry, globals, real_ztf_events, raw_data, standardized,
                    k, loops, correlated_pairs, payload, watched >>

\* lines 160-162: generate_fallback_mock_data(), lines 19-32
Fallback ==
    /\ pc = "assemble"
    /\ real_ztf_events = << >>
    /\ \E t \in [1..MockCount -> RandomMockTimes],
          pos \in [1..MockCount -> RandomPositions] :
         real_ztf_events' = [n \in 1..MockCount |-> MockEvent(n, t[n], pos[n])]
    /\ UNCHANGED << pc, entry, globals, real_gw_events, raw_data,
                    standardized, k, loops, correlated_pairs, error, stage,
                    payload, watched >>

\* lines 165-171: the batch, and the entry of standardize_data
Assemble ==
    /\ pc = "assemble"
    /\ real_ztf_events # << >>
    /\ raw_data' = real_ztf_events \o real_gw_events           \* line 169
    /\ standardized' = << >>                                   \* line 111
    /\ k' = 1
    /\ pc' = "standardize"
    /\ UNCHANGED << entry, globals, feeds, loops, correlated_pairs, error,
                    stage, payload, watched >>

\* evt_copy['time'].isoformat(), line 177
IsoFormat(t) == << "iso", t[2] >>

\* lines 174-183
Serialize ==
    /\ pc = "serialize"
    /\ payload' =
          [set |-> TRUE,
           all_events |->
              [n \in 1..Len(raw_data) |->
                  [raw_data[n] EXCEPT !.time = IsoFormat(raw_data[n].time)]],
           correlations |-> correlated_pairs]
    /\ pc' = "returned"
    /\ UNCHANGED << entry, globals, feeds, raw_data, standardized, k, loops,
                    correlated_pairs, error, stage, watched >>

----------------------------------------------------------------------------

Next ==
    \/ Call
    \/ StandardizeStep
    \/ StandardizeReturn
    \/ CorrelateStep
    \/ CorrelateNextOuter
    \/ CorrelateReturn
    \/ Request
    \/ FetchZtf
    \/ FetchGw
    \/ Fallback
    \/ Assemble
    \/ Serialize
    \/ Finish

Spec == Init /\ [][Next]_vars

----------------------------------------------------------------------------
(* Repeated direct calls.  The list a call returned stays with its caller  *)
(* (correlated_pairs keeps it until line 125 of the next call), and one     *)
(* earlier run may be remembered in watched.                                *)

RunBatches == BatchesOf(RunEvents, MaxRunBatch)

CallRun ==
    /\ pc = "idle"
    /\ \E batch \in RunBatches : Enter(batch)

\* the call is over; the caller keeps what it returned
Return ==
    /\ pc \in { "returned", "raised" }
    /\ pc' = "idle"
    /\ entry' = "none"
    /\ raw_data' = << >>
    /\ standardized' = << >>
    /\ k' = 1
    /\ i' = 1
    /\ j' = 1
    /\ examined' = << >>
    /\ error' = "none"
    /\ stage' = "none"
    /\ UNCHANGED << globals, feeds, correlated_pairs, payload, watched >>

\* the same, and the observer notes the batch and the result of this run
Remember ==
    /\ pc = "returned"
    /\ ~watched.set
    /\ watched' = [set |-> TRUE, batch |-> raw_data, pairs |-> correlated_pairs]
    /\ pc' = "idle"
    /\ entry' = "none"
    /\ raw_data' = << >>
    /\ standardized' = << >>
    /\ k' = 1
    /\ i' = 1
    /\ j' = 1
    /\ examined' = << >>
    /\ error' = "none"
    /\ stage' = "none"
    /\ UNCHANGED << globals, feeds, correlated_pairs, payload >>

NextRuns ==
    \/ CallRun
    \/ StandardizeStep
    \/ StandardizeReturn
    \/ CorrelateStep
    \/ CorrelateNextOuter
    \/ CorrelateReturn
    \/ Remember
    \/ Return

SpecRuns == Init /\ [][NextRuns]_vars

----------------------------------------------------------------------------
(* The module loaded with other values on lines 15-16 *)

Policies ==
    { << DefaultTimeWindow, DefaultSeparationThreshold >>,
      << Num(0), DefaultSeparationThreshold >>,
      << Num(-600), DefaultSeparationThreshold >>,
      << NonNumeric, DefaultSeparationThreshold >>,
      << DefaultTimeWindow, Num(0) >>,
      << DefaultTimeWindow, NonNumeric >> }

InitPolicy ==
    /\ \E p \in Policies :
         /\ TIME_WINDOW_SECONDS = p[1]
         /\ SEPARATION_THRESHOLD_DEG = p[2]
    /\ pc = "idle"
    /\ entry = "none"
    /\ real_ztf_events = << >>
    /\ real_gw_events = << >>
    /\ raw_data = << >>
    /\ standardized = << >>
    /\ k = 1
    /\ i = 1
    /\ j = 1
    /\ correlated_pairs = << >>
    /\ examined = << >>
    /\ error = "none"
    /\ stage = "none"
    /\ payload = NoPayload
    /\ watched = NoRun

SpecPolicy == InitPolicy /\ [][Next]_vars

----------------------------------------------------------------------------
(* Properties *)

Count(seq, x) == Cardinality({ n \in 1..Len(seq) : seq[n] = x })

\* position in the batch of the event with this id
IndexOfId(id) == CHOOSE n \in 1..Len(standardized) : standardized[n].id = id

\* the match policy of spec 4.2 with the default thresholds
Qualifies(a, b) ==
    /\ a.source # b.source
    /\ Abs(a.time - b.time) < 600
    /\ separation(a.coords, b.coords) < 5

Reported(a, b) == Count(correlated_pairs, << a.id, b.id >>)

AfterCorrelate == pc \in { "serialize", "returned" }

LexLess(p, q) == p[1] < q[1] \/ (p[1] = q[1] /\ p[2] < q[2])

\* C1: every pair in correlate_events' list joins two events of the batch
\* of different sources, less than 600 s and less than 5 degrees apart.
C1_Soundness ==
    \A n \in 1..Len(correlated_pairs) :
        \E a, b \in 1..Len(standardized) :
            /\ standardized[a].id = correlated_pairs[n][1]
            /\ standardized[b].id = correlated_pairs[n][2]
            /\ standardized[a].source # standardized[b].source
            /\ Abs(standardized[a].time - standardized[b].time) < 600
            /\ separation(standardized[a].coords, standardized[b].coords) < 5

\* a returned batch with a reported pair, a cross-source pair exactly 5
\* degrees apart and a same-source pair inside both thresholds
C1_Witness ==
    /\ pc = "returned"
    /\ correlated_pairs # << >>
    /\ \E a, b \in 1..Len(standardized) :
          /\ standardized[a].source # standardized[b].source
          /\ Abs(standardized[a].time - standardized[b].time) < 600
          /\ separation(standardized[a].coords, standardized[b].coords) = 5
    /\ \E a, b \in 1..Len(standardized) :
          /\ a # b
          /\ standardized[a].source = standardized[b].source
          /\ Abs(standardized[a].time - standardized[b].time) < 600
          /\ separation(standardized[a].coords, standardized[b].coords) < 5

\* C2: once correlate_events has returned, every two events of the batch
\* that qualify are reported exactly once, in one of the two orders.
C2_CompleteNoDuplicate ==
    AfterCorrelate =>
        \A a, b \in 1..Len(standardized) :
            (a < b /\ Qualifies(standardized[a], standardized[b])) =>
                Reported(standardized[a], standardized[b])
                    + Reported(standardized[b], standardized[a]) = 1

\* a returned batch in which one event qualifies with two partners
C2_Witness ==
    /\ pc = "returned"
    /\ \E a, b, c \in 1..Len(standardized) :
          /\ b # c
          /\ Qualifies(standardized[a], standardized[b])
          /\ Qualifies(standardized[a], standardized[c])
    /\ Len(correlated_pairs) >= 2

\* C3: a call on an empty batch or on a batch of one event returns the
\* empty list and raises nothing.
C3_EmptyOrSingle ==
    (/\ pc \in { "returned", "raised" }
     /\ Len(raw_data) <= 1
     /\ stage # "standardize_data") =>
        (pc = "returned" /\ correlated_pairs = << >> /\ error = "none")

\* a call on one event has returned, and an earlier call on the empty
\* batch returned too
C3_Witness ==
    /\ pc = "returned"
    /\ Len(standardized) = 1
    /\ watched.set
    /\ watched.batch = << >>

\* C4: standardize_data fails with MalformedRecordError on every malformed
\* record, and no malformed record gets a canonical event.
C4_MalformedRejected ==
    /\ \A n \in 1..Len(raw_data) :
          (Malformed(raw_data[n]) /\ pc \in { "standardize", "correlate" }) =>
              k <= n
    /\ (pc = "raised" /\ stage = "standardize_data") =>
          error = "MalformedRecordError"

\* C5: a batch with exactly one malformed record and at least one
\* well-formed record is not aborted: the run goes on to correlate_events
\* with the canonical events of the well-formed records.
C5_OneMalformedDoesNotAbort ==
    (/\ Cardinality({ n \in 1..Len(raw_data) : Malformed(raw_data[n]) }) = 1
     /\ Len(raw_data) >= 2) =>
        /\ ~(pc = "raised" /\ stage = "standardize_data")
        /\ pc = "correlate" =>
              \A n \in 1..Len(raw_data) :
                  ~Malformed(raw_data[n]) =>
                      \E m \in 1..Len(standardized) :
                          standardized[m] = Canonical(raw_data[n])

ValidPolicy ==
    /\ IsNum(TIME_WINDOW_SECONDS) /\ TIME_WINDOW_SECONDS[2] > 0
    /\ IsNum(SEPARATION_THRESHOLD_DEG) /\ SEPARATION_THRESHOLD_DEG[2] > 0

\* C6: with a threshold that is not a positive number the run fails with
\* InvalidPolicyError before any pair is evaluated, and reports no pair.
C6_InvalidPolicyRejected ==
    ~ValidPolicy =>
        /\ examined = << >>
        /\ correlated_pairs = << >>
        /\ ~AfterCorrelate
        /\ (pc = "raised" /\ stage = "correlate_events") =>
              error = "InvalidPolicyError"

\* C7: a run on the batch of a remembered earlier run returns the pairs
\* that run returned, whatever ran in between; and no step of
\* standardize_data or correlate_events changes the batch it was given or
\* the two thresholds.
C7_Stateless ==
    /\ []((pc = "returned" /\ watched.set /\ watched.batch = raw_data) =>
             correlated_pairs = watched.pairs)
    /\ [][(pc \in { "standardize", "correlate" }) =>
             /\ raw_data' = raw_data
             /\ pc = "correlate" => standardized' = standardized
             /\ TIME_WINDOW_SECONDS' = TIME_WINDOW_SECONDS
             /\ SEPARATION_THRESHOLD_DEG' = SEPARATION_THRESHOLD_DEG]_vars

\* a later run on the remembered batch has returned pairs
C7_Witness ==
    /\ pc = "returned"
    /\ watched.set
    /\ watched.batch = raw_data
    /\ correlated_pairs # << >>

\* C8: no outcome of a feed makes get_event_data fail; it returns the
\* payload.
C8_FeedsNeverFailRun ==
    entry = "get_event_data" =>
        /\ ~(pc = "raised" /\ stage \in { "fetch_ztf_data", "fetch_gw_data" })
        /\ pc = "returned" => payload.set

\* C9: the separation is symmetric, zero for identical positions, and 2
\* degrees for right ascensions 1 and 359 at one declination, and such a
\* pair of different sources inside the time window is reported.
C9_RaWrap ==
    \A a, b \in 1..Len(standardized) :
        LET ea == standardized[a]
            eb == standardized[b]
        IN  /\ separation(ea.coords, eb.coords)
                  = separation(eb.coords, ea.coords)
            /\ ea.coords = eb.coords => separation(ea.coords, eb.coords) = 0
            /\ (/\ ea.coords.dec = eb.coords.dec
                /\ ea.coords.ra = 1
                /\ eb.coords.ra = 359) =>
                  /\ separation(ea.coords, eb.coords) = 2
                  /\ (/\ AfterCorrelate
                      /\ ea.source # eb.source
                      /\ Abs(ea.time - eb.time) < 600) =>
                        Reported(ea, eb) + Reported(eb, ea) = 1

\* a returned batch whose reported pair lies across the 0/360 wrap
C9_Witness ==
    /\ pc = "returned"
    /\ \E a, b \in 1..Len(standardized) :
          /\ standardized[a].coords.ra = 359
          /\ standardized[b].coords.ra = 1
          /\ Reported(standardized[a], standardized[b])
                + Reported(standardized[b], standardized[a]) = 1

\* C10: the pairs are examined in increasing order of (outer index, inner
\* index), outer below inner, all of them once by the time the call
\* returns; the reported pairs are in that order too, each with its first
\* event before its second in the batch.
C10_IterationOrder ==
    /\ \A m \in 1..Len(examined) :
          /\ 1 <= examined[m][1]
          /\ examined[m][1] < examined[m][2]
          /\ examined[m][2] <= Len(standardized)
    /\ \A m, n \in 1..Len(examined) :
          m < n => LexLess(examined[m], examined[n])
    /\ AfterCorrelate =>
          2 * Len(examined) = Len(standardized) * (Len(standardized) - 1)
    /\ \A m \in 1..Len(correlated_pairs) :
          IndexOfId(correlated_pairs[m][1]) < IndexOfId(correlated_pairs[m][2])
    /\ \A m, n \in 1..Len(correlated_pairs) :
          m < n =>
              LexLess(<< IndexOfId(correlated_pairs[m][1]),
                         IndexOfId(correlated_pairs[m][2]) >>,
                      << IndexOfId(correlated_pairs[n][1]),
                         IndexOfId(correlated_pairs[n][2]) >>)

\* a returned batch of three events, all three pairs examined, two reported
C10_Witness ==
    /\ pc = "returned"
    /\ Len(standardized) = 3
    /\ Len(examined) = 3
    /\ Len(correlated_pairs) = 2

====
